---- MODULE Spec2Model ----
(***************************************************************************)
(* Model of the task entity of gestortareas (src/core/tareas.py): the      *)
(* Tarea class, its business methods and its JSON (de)serialisation; of    *)
(* the statistics and the pickle persistence of src/utils.py; and of the   *)
(* login, dashboard and logout routes of src/api/app.py.                   *)
(*                                                                         *)
(* A Python list is an object: `tareas[i].usuarios_asignados` is a         *)
(* reference into `heap`, so that two tasks built from one list share it.  *)
(* A Usuario is an object too: its `obj` field is its identity, the other  *)
(* fields are its attributes.                                              *)
(***************************************************************************)
EXTENDS Integers, Sequences, FiniteSets, TLC

VARIABLES
    tareas,     \* the Tarea objects constructed so far, in construction order
    heap,       \* the list objects: heap[l] is the content of list l
    nextObj,    \* identity the next Usuario object built by from_dict gets
    llamadas,   \* the number of calls made so far; the clock ticks once a call
    ultima,     \* the last call: operation, arguments and exception raised
    archivo,    \* the file of cargar_datos / guardar_datos: absent, or its bytes
    guardado,   \* the data of the last guardar_datos that returned normally
    gestor_usuarios,  \* gestor.usuarios of the application: username -> user
    cookie      \* the access_token cookie the browser holds

vars ==
    <<tareas, heap, nextObj, llamadas, ultima, archivo, guardado,
      gestor_usuarios, cookie>>

\* the state of the Tarea objects, and the state outside them
estado_tareas == <<tareas, heap, nextObj>>
estado_archivo == <<archivo, guardado>>
estado_api == <<gestor_usuarios, cookie>>
estado_externo == <<estado_archivo, estado_api>>

\* ------------------------------------------------------------------ bounds

MaxLlamadas == 5        \* calls made in one run

\* ------------------------------------------------------------------ values

None == "None"
NoError == "ok"
ValueError == "ValueError"
RuntimeError == "RuntimeError"

\* datetime.now() at clock reading n: seconds and microseconds; every second
\* reading falls on a whole second
now(n) == [s |-> n, us |-> (n % 2) * 500]

\* datetime.isoformat(): the microseconds are written only when not zero
isoformat(d) == IF d.us = 0 THEN <<d.s>> ELSE <<d.s, d.us>>

\* datetime.fromisoformat(): a missing fraction reads as zero microseconds
fromisoformat(txt) == [s |-> txt[1], us |-> IF Len(txt) >= 2 THEN txt[2] ELSE 0]

\* The live Usuario objects of the caller
alice ==
    [obj |-> 1, id |-> "u1", nombre |-> "alice", nombre_visible |-> "Alice",
     rol |-> "user", fecha_creacion |-> [s |-> 1, us |-> 0]]
bob ==
    [obj |-> 2, id |-> "u2", nombre |-> "bob", nombre_visible |-> "Bob",
     rol |-> "supervisor", fecha_creacion |-> [s |-> 2, us |-> 500]]

Usuarios == {alice, bob}
NoUsuario == [obj |-> 0]
\* the identity of the first object from_dict builds: after the live ones
PrimerObj == Cardinality(Usuarios) + 1

\* Usuario.__eq__: users are equal when their usernames are
Usuario_eq(a, b) == a.nombre = b.nombre

\* Usuario.to_dict
Usuario_to_dict(u) ==
    [id |-> u.id, nombre |-> u.nombre, nombre_visible |-> u.nombre_visible,
     rol |-> u.rol, fecha_creacion |-> isoformat(u.fecha_creacion)]

\* Usuario.from_dict: a new object with the attributes of the dict
Usuario_from_dict(d, o) ==
    [obj |-> o, id |-> d.id, nombre |-> d.nombre,
     nombre_visible |-> d.nombre_visible, rol |-> d.rol,
     fecha_creacion |-> fromisoformat(d.fecha_creacion)]

\* ------------------------------------------------------------ Python lists

\* x == y of two objects: identity first, then __eq__
py_eq(a, b) == a.obj = b.obj \/ Usuario_eq(a, b)

\* mutant of py_in: membership by object identity alone
py_in_identidad(u, lista) == \E k \in DOMAIN lista : lista[k].obj = u.obj

\* `u in lista`
py_in(u, lista) == \E k \in DOMAIN lista : py_eq(lista[k], u)

\* lista.remove(u): drops the first element equal to u
py_remove(lista, u) ==
    LET k == CHOOSE j \in DOMAIN lista :
                 /\ py_eq(lista[j], u)
                 /\ \A m \in 1..(j - 1) : ~py_eq(lista[m], u)
    IN  SubSeq(lista, 1, k - 1) \o SubSeq(lista, k + 1, Len(lista))

\* ------------------------------------------------------------------- Tarea

Nombres == {"", "Refactor"}
Descripciones == {"desc"}
Textos == {"started"}
EstadosValidos == {"pendiente", "finalizada"}
EstadosEntrada == EstadosValidos \cup {"en_progreso"}

\* the file when it does not exist, and when it holds bytes
Ausente == [existe |-> FALSE, bytes |-> <<>>]
Archivo(bytes) == [existe |-> TRUE, bytes |-> bytes]

\* the last data saved: none yet, or a collection
NadaGuardado == [hay |-> FALSE, datos |-> <<>>]
Guardado(data) == [hay |-> TRUE, datos |-> data]

\* lists the caller may hold before it builds its first task
ListasIniciales == {<<alice>>, <<alice, alice>>}

\* ------------------------------------------------- values of the web layer

\* the usernames and passwords typed into the login form
NombresLogin == {alice.nombre, bob.nombre}
Claves == {"s3cret", "hunter2"}

\* gestor.usuarios of a manager that holds no user
SinUsuarios == [n \in {} |-> [usuario |-> NoUsuario, clave |-> ""]]

\* the live Usuario object of a username
UsuarioDe(n) == CHOOSE u \in Usuarios : u.nombre = n

\* the gestor.usuarios the application may start with: any of the live users,
\* each with a password
Gestores ==
    UNION {[S -> {[usuario |-> UsuarioDe(n), clave |-> c] :
                      n \in S, c \in Claves}] : S \in SUBSET NombresLogin}

\* SECRET_KEY, and a key that is not it
SECRET_KEY == "clave_super_secreta"
OtraClave == "otra_clave"

\* no access_token cookie, and the cookie that holds a token
SinCookie ==
    [hay |-> FALSE, token |-> [sub |-> "", rol |-> "", exp |-> 0, firma |-> ""]]
Cookie(token) == [hay |-> TRUE, token |-> token]

\* the exceptions of the web layer
AuthenticationError == "AuthenticationError"
NameError == "NameError"
HTTPException401 == "HTTPException(401)"

\* records a call: the operation, the task it ran on (0: none), the exception
\* it raised, its Usuario argument, its string argument and its list or
\* source-task argument; resultado is the value returned, when one is, and
\* datos the collection passed, when one is
Llamada(op, t, err, u, v, a) ==
    [op |-> op, tarea |-> t, error |-> err, usuario |-> u, valor |-> v,
     arg |-> a, resultado |-> None, datos |-> None]

Init ==
    /\ tareas = <<>>
    /\ \E l \in ListasIniciales : heap = <<l>>
    /\ nextObj = PrimerObj
    /\ llamadas = 0
    /\ ultima = Llamada("init", 0, NoError, NoUsuario, None, 0)
    /\ archivo = Ausente
    /\ guardado = NadaGuardado
    /\ gestor_usuarios = SinUsuarios
    /\ cookie = SinCookie

\* the list object a task holds
lista_de(i) == heap[tareas[i].usuarios_asignados]

\* mutant of nombre_vacio: the name is never checked
nombre_vacio_nunca(nombre) == FALSE

\* `if not nombre` of Tarea.__init__
nombre_vacio(nombre) == nombre = ""

\* `usuarios_asignados or []` of Tarea.__init__: TRUE when the argument
\* (0 for None, else a list of h) is kept as the task's own list
conserva_lista(h, arg) == arg # 0 /\ h[arg] # <<>>

\* the attributes Tarea.__init__ sets; l is the list the task holds
Tarea_init(nombre, descripcion, l, ahora) ==
    [nombre |-> nombre, descripcion |-> descripcion, estado |-> "pendiente",
     fecha_creacion |-> ahora, usuarios_asignados |-> l, comentarios |-> <<>>]

\* Tarea(nombre, descripcion, usuarios_asignados): arg is None (0) or a list
Crear(nombre, descripcion, arg) ==
    /\ IF nombre_vacio(nombre)
       THEN /\ ultima' = Llamada("crear", 0, ValueError, NoUsuario, nombre, arg)
            /\ UNCHANGED <<tareas, heap, nextObj>>
       ELSE /\ IF conserva_lista(heap, arg)
               THEN /\ heap' = heap
                    /\ tareas' = Append(tareas,
                                   Tarea_init(nombre, descripcion, arg,
                                              now(llamadas)))
               ELSE /\ heap' = Append(heap, <<>>)
                    /\ tareas' = Append(tareas,
                                   Tarea_init(nombre, descripcion,
                                              Len(heap) + 1, now(llamadas)))
            /\ ultima' = Llamada("crear", Len(tareas) + 1, NoError, NoUsuario,
                                 nombre, arg)
            /\ UNCHANGED nextObj

\* Tarea.agregar_usuario: the list after the call
agregar_usuario(lista, usuario) ==
    IF ~py_in(usuario, lista) THEN Append(lista, usuario) ELSE lista

AgregarUsuario(i, usuario) ==
    /\ heap' = [heap EXCEPT ![tareas[i].usuarios_asignados] =
                                agregar_usuario(@, usuario)]
    /\ ultima' = Llamada("agregar_usuario", i, NoError, usuario, None, 0)
    /\ UNCHANGED <<tareas, nextObj>>

\* Tarea.quitar_usuario: the list after the call
quitar_usuario(lista, usuario) ==
    IF py_in(usuario, lista) THEN py_remove(lista, usuario) ELSE lista

QuitarUsuario(i, usuario) ==
    /\ heap' = [heap EXCEPT ![tareas[i].usuarios_asignados] =
                                quitar_usuario(@, usuario)]
    /\ ultima' = Llamada("quitar_usuario", i, NoError, usuario, None, 0)
    /\ UNCHANGED <<tareas, nextObj>>

\* mutant of estado_aceptado: the value is never checked
estado_aceptado_todo(nuevo_estado) == TRUE

\* mutant of estado_aceptado: a task may only be finished, never reopened
estado_aceptado_solo_final(nuevo_estado) == nuevo_estado = "finalizada"

\* the check of Tarea.cambiar_estado
estado_aceptado(nuevo_estado) == nuevo_estado \in {"pendiente", "finalizada"}

\* mutant of cambiar_estado: the change also stamps the task with a new time
cambiar_estado_con_fecha(t, nuevo_estado) ==
    [t EXCEPT !.estado = nuevo_estado, !.fecha_creacion = now(0)]

\* Tarea.cambiar_estado: the task after an accepted call
cambiar_estado(t, nuevo_estado) == [t EXCEPT !.estado = nuevo_estado]

CambiarEstado(i, nuevo_estado) ==
    /\ IF ~estado_aceptado(nuevo_estado)
       THEN /\ ultima' = Llamada("cambiar_estado", i, ValueError, NoUsuario,
                                 nuevo_estado, 0)
            /\ UNCHANGED tareas
       ELSE /\ tareas' = [tareas EXCEPT ![i] = cambiar_estado(@, nuevo_estado)]
            /\ ultima' = Llamada("cambiar_estado", i, NoError, NoUsuario,
                                 nuevo_estado, 0)
    /\ UNCHANGED <<heap, nextObj>>

\* mutant of autor_asignado: the author is never checked
autor_asignado_siempre(autor, lista) == TRUE

\* the check of Tarea.agregar_comentario
autor_asignado(autor, lista) == py_in(autor, lista)

\* mutant of agregar_comentario: the comment is put first
agregar_comentario_al_inicio(t, texto, autor, ahora) ==
    [t EXCEPT !.comentarios = <<<<texto, autor, ahora>>>> \o @]

\* Tarea.agregar_comentario: the task after an accepted call
agregar_comentario(t, texto, autor, ahora) ==
    [t EXCEPT !.comentarios = Append(@, <<texto, autor, ahora>>)]

AgregarComentario(i, texto, autor) ==
    /\ IF ~autor_asignado(autor, lista_de(i))
       THEN /\ ultima' = Llamada("agregar_comentario", i, ValueError, autor,
                                 texto, 0)
            /\ UNCHANGED tareas
       ELSE /\ tareas' = [tareas EXCEPT
                            ![i] = agregar_comentario(@, texto, autor,
                                                      now(llamadas))]
            /\ ultima' = Llamada("agregar_comentario", i, NoError, autor,
                                 texto, 0)
    /\ UNCHANGED <<heap, nextObj>>

\* Tarea.obtener_detalle: the dict of the task whose list holds `lista`
obtener_detalle(t, lista) ==
    [nombre |-> t.nombre,
     descripcion |-> t.descripcion,
     estado |-> t.estado,
     fecha_creacion |-> isoformat(t.fecha_creacion),
     usuarios_asignados |->
         [k \in 1..Len(lista) |-> Usuario_to_dict(lista[k])],
     comentarios |->
         [k \in 1..Len(t.comentarios) |->
             [texto |-> t.comentarios[k][1],
              autor |-> Usuario_to_dict(t.comentarios[k][2]),
              fecha |-> isoformat(t.comentarios[k][3])]]]

\* json.dumps of the dict: the text, as its members in the order written
json_dumps(d) ==
    << <<"nombre", d.nombre>>, <<"descripcion", d.descripcion>>,
       <<"estado", d.estado>>, <<"fecha_creacion", d.fecha_creacion>>,
       <<"usuarios_asignados", d.usuarios_asignados>>,
       <<"comentarios", d.comentarios>> >>

\* json.loads of a text: the dict, each key with the value written for it
json_loads(txt) ==
    [key \in {txt[k][1] : k \in DOMAIN txt} |->
        txt[CHOOSE k \in DOMAIN txt : txt[k][1] = key][2]]

\* Tarea.to_json
to_json(t, lista) == json_dumps(obtener_detalle(t, lista))

\* the `usuarios` list of Tarea.from_json; o is the first new object identity
usuarios_de_json(obj, o) ==
    [k \in 1..Len(obj.usuarios_asignados) |->
        Usuario_from_dict(obj.usuarios_asignados[k], o + k - 1)]

\* the comments Tarea.from_json appends; o is the first new object identity
comentarios_de_json(obj, o) ==
    [k \in 1..Len(obj.comentarios) |->
        <<obj.comentarios[k].texto,
          Usuario_from_dict(obj.comentarios[k].autor, o + k - 1),
          fromisoformat(obj.comentarios[k].fecha)>>]

\* mutant of from_json: the state read is not stored
from_json_sin_estado(obj, o, l, ahora) ==
    [Tarea_init(obj.nombre, obj.descripcion, l, ahora) EXCEPT
        !.fecha_creacion = fromisoformat(obj.fecha_creacion),
        !.comentarios =
            comentarios_de_json(obj, o + Len(obj.usuarios_asignados))]

\* Tarea.from_json on an accepted name: the task built, holding list l
from_json(obj, o, l, ahora) ==
    [Tarea_init(obj.nombre, obj.descripcion, l, ahora) EXCEPT
        !.estado = obj.estado,
        !.fecha_creacion = fromisoformat(obj.fecha_creacion),
        !.comentarios =
            comentarios_de_json(obj, o + Len(obj.usuarios_asignados))]

\* Tarea.from_json(data); origen is the task data was written from, 0 when the
\* text comes from elsewhere
FromJson(data, origen) ==
    LET obj == json_loads(data)
        usuarios == usuarios_de_json(obj, nextObj)
    IN  IF nombre_vacio(obj.nombre)
        THEN /\ ultima' = Llamada("from_json", 0, ValueError, NoUsuario,
                                  obj.nombre, origen)
             /\ nextObj' = nextObj + Len(usuarios)
             /\ UNCHANGED <<tareas, heap>>
        ELSE /\ heap' = Append(heap, usuarios)
             /\ tareas' = Append(tareas,
                            from_json(obj, nextObj, Len(heap) + 1, now(llamadas)))
             /\ nextObj' = nextObj + Len(usuarios) + Len(obj.comentarios)
             /\ ultima' = Llamada("from_json", Len(tareas) + 1, NoError,
                                  NoUsuario, obj.nombre, origen)

\* a JSON text written by hand or by another program
RegistroExterno(nombre, estado) ==
    json_dumps([nombre |-> nombre, descripcion |-> "desc", estado |-> estado,
                fecha_creacion |-> isoformat(now(0)),
                usuarios_asignados |-> <<>>, comentarios |-> <<>>])

RegistrosExternos ==
    {RegistroExterno("Refactor", "en_progreso"), RegistroExterno("", "pendiente")}

\* ------------------------------------------------------------ utils.py

\* mutant of calcular_estadisticas_tareas: the last task is not scanned
calcular_estadisticas_tareas_sin_ultima(ts) ==
    LET RECURSIVE cuenta(_)
        cuenta(k) ==
            IF k = 0 THEN 0
            ELSE (IF ts[k].estado = "finalizada" THEN 1 ELSE 0) + cuenta(k - 1)
        total == Len(ts)
        finalizadas == IF total = 0 THEN 0 ELSE cuenta(total - 1)
    IN  [total |-> total, finalizadas |-> finalizadas,
         pendientes |-> total - finalizadas]

\* calcular_estadisticas_tareas: total is len(tareas), finalizadas the sum of
\* 1 over the tasks whose estado is "finalizada", pendientes the difference
calcular_estadisticas_tareas(ts) ==
    LET RECURSIVE cuenta(_)
        cuenta(k) ==
            IF k = 0 THEN 0
            ELSE (IF ts[k].estado = "finalizada" THEN 1 ELSE 0) + cuenta(k - 1)
        total == Len(ts)
        finalizadas == cuenta(total)
    IN  [total |-> total, finalizadas |-> finalizadas,
         pendientes |-> total - finalizadas]

\* a call of calcular_estadisticas_tareas on the tasks built so far
CalcularEstadisticas ==
    /\ ultima' = [Llamada("estadisticas", 0, NoError, NoUsuario, None, 0)
                     EXCEPT !.resultado = calcular_estadisticas_tareas(tareas)]
    /\ UNCHANGED <<tareas, heap, nextObj>>

\* the collections handed to guardar_datos; the last holds an object pickle
\* cannot write (a lambda)
NoSerializable == "lambda"
Datos == {<<>>, <<"a">>, <<"a", "b">>, <<"a", NoSerializable>>}
\* the default argument of cargar_datos: None, or a list
SinDefault == [dado |-> FALSE, valor |-> <<>>]
Defaults == {SinDefault, [dado |-> TRUE, valor |-> <<"d">>]}

\* `if default is None: default = []` of cargar_datos
default_efectivo(default) == IF default.dado THEN default.valor ELSE <<>>

\* what the environment makes of a call: no fault, open() fails, or the
\* write fails after some bytes
SinFallo == "sin_fallo"
FalloOpen == "fallo_open"
FalloEscritura == "fallo_escritura"

\* the bytes pickle.dump writes for a collection: header, items, end mark
pickle_dumps(data) == <<"PROTO">> \o data \o <<"STOP">>

\* pickle.load accepts the bytes: they start with the header, end with the mark
pickle_valido(bytes) ==
    /\ Len(bytes) >= 2
    /\ bytes[1] = "PROTO"
    /\ bytes[Len(bytes)] = "STOP"

\* the collection pickle.load reads from accepted bytes
pickle_loads(bytes) == SubSeq(bytes, 2, Len(bytes) - 1)

\* pickle.dump can write every object of the collection
serializable(data) == \A k \in DOMAIN data : data[k] # NoSerializable

\* mutant of cargar_datos: every failure is answered with the default
cargar_datos_traga(f, default, fallo) ==
    IF fallo = SinFallo /\ f.existe /\ pickle_valido(f.bytes)
    THEN [error |-> NoError, resultado |-> pickle_loads(f.bytes)]
    ELSE [error |-> NoError, resultado |-> default_efectivo(default)]

\* cargar_datos(path, default) on file f: the exception raised and the value
\* returned
cargar_datos(f, default, fallo) ==
    IF fallo = FalloOpen
    THEN [error |-> RuntimeError, resultado |-> None]
    ELSE IF ~f.existe
    THEN [error |-> NoError, resultado |-> default_efectivo(default)]
    ELSE IF ~pickle_valido(f.bytes)
    THEN [error |-> RuntimeError, resultado |-> None]
    ELSE [error |-> NoError, resultado |-> pickle_loads(f.bytes)]

CargarDatos(default, fallo) ==
    /\ ultima' = [Llamada("cargar_datos", 0,
                          cargar_datos(archivo, default, fallo).error,
                          NoUsuario, fallo, 0)
                     EXCEPT !.resultado =
                                cargar_datos(archivo, default, fallo).resultado,
                            !.datos = default]
    /\ UNCHANGED estado_archivo
    /\ UNCHANGED <<estado_tareas, estado_api>>

\* guardar_datos(path, data) on file f, the write stopping after k bytes when
\* it fails: the exception raised and the file left behind. open(path, "wb")
\* empties the file before pickle.dump writes.
guardar_datos(f, data, fallo, k) ==
    IF fallo = FalloOpen
    THEN [error |-> RuntimeError, archivo |-> f]
    ELSE IF fallo = FalloEscritura \/ ~serializable(data)
    THEN [error |-> RuntimeError,
          archivo |-> Archivo(SubSeq(pickle_dumps(data), 1, k))]
    ELSE [error |-> NoError, archivo |-> Archivo(pickle_dumps(data))]

\* the numbers of bytes a failing write of data may have written
EscritosAlFallar(data) ==
    0..(IF serializable(data)
        THEN Len(data) + 1
        ELSE CHOOSE j \in 1..Len(data) :
                 /\ data[j] = NoSerializable
                 /\ \A m \in 1..(j - 1) : data[m] # NoSerializable)

GuardarDatos(data, fallo, k) ==
    /\ archivo' = guardar_datos(archivo, data, fallo, k).archivo
    /\ guardado' = IF guardar_datos(archivo, data, fallo, k).error = NoError
                   THEN Guardado(data) ELSE guardado
    /\ ultima' = [Llamada("guardar_datos", 0,
                          guardar_datos(archivo, data, fallo, k).error,
                          NoUsuario, fallo, 0)
                     EXCEPT !.datos = data]
    /\ UNCHANGED <<estado_tareas, estado_api>>

\* ------------------------------------------------------------- src/api/app.py

\* whether the name jwt is bound in the module: its import is commented out
jwt_importado == FALSE

\* the hours a token lives: timedelta(hours=1); the clock of the web layer
\* reads hours
HorasVigencia == 1

\* crear_token(usuario) at clock reading n: the exception raised and the token
\* jwt.encode returns
crear_token(usuario, n) ==
    IF jwt_importado
    THEN [error |-> NoError,
          token |-> [sub |-> usuario.nombre, rol |-> usuario.rol,
                     exp |-> n + HorasVigencia, firma |-> SECRET_KEY]]
    ELSE [error |-> NameError, token |-> SinCookie.token]

\* gestor.autenticar_usuario(username, password): the user, or
\* AuthenticationError when the username is unknown or the password is wrong
autenticar_usuario(usuarios, username, password) ==
    IF username \notin DOMAIN usuarios
    THEN [error |-> AuthenticationError, usuario |-> NoUsuario]
    ELSE IF usuarios[username].clave # password
    THEN [error |-> AuthenticationError, usuario |-> NoUsuario]
    ELSE [error |-> NoError, usuario |-> usuarios[username].usuario]

\* the responses: a rendered template with the error and the user of its
\* context, a redirect with the cookie it sets or deletes, an error status
Plantilla(nombre, error, usuario) ==
    [status |-> 200, cuerpo |-> nombre, error |-> error, usuario |-> usuario,
     location |-> "", set_cookie |-> SinCookie, borra_cookie |-> FALSE]
Redireccion(location, c, borra) ==
    [status |-> 302, cuerpo |-> "", error |-> "", usuario |-> "",
     location |-> location, set_cookie |-> c, borra_cookie |-> borra]
ErrorHttp(status, detalle) ==
    [status |-> status, cuerpo |-> "", error |-> detalle, usuario |-> "",
     location |-> "", set_cookie |-> SinCookie, borra_cookie |-> FALSE]

\* mutant of login: an unknown username gets an error message of its own
login_revela(usuarios, username, password, n) ==
    IF username \notin DOMAIN usuarios
    THEN Plantilla("login.html", "Usuario no existe", "")
    ELSE Plantilla("login.html", "Credenciales invalidas", "")

\* POST /login: the response. Every exception of the try block, of
\* autenticar_usuario or of crear_token, is answered with the login page and
\* the error "Credenciales invalidas" (written with an accent in the source).
login(usuarios, username, password, n) ==
    LET a == autenticar_usuario(usuarios, username, password)
        t == crear_token(a.usuario, n)
    IN  IF a.error # NoError \/ t.error # NoError
        THEN Plantilla("login.html", "Credenciales invalidas", "")
        ELSE Redireccion("/dashboard", Cookie(t.token), FALSE)

\* obtener_usuario_actual(request) for the cookie c of the request at clock
\* reading n: the exception raised, its detail, and the user returned.
\* jwt.decode checks the signature, then the expiry.
obtener_usuario_actual(usuarios, c, n) ==
    IF ~c.hay
    THEN [error |-> HTTPException401, detalle |-> "", usuario |-> NoUsuario]
    ELSE IF ~jwt_importado
    THEN [error |-> NameError, detalle |-> "", usuario |-> NoUsuario]
    ELSE IF c.token.firma # SECRET_KEY
    THEN [error |-> HTTPException401, detalle |-> "Token invalido",
          usuario |-> NoUsuario]
    ELSE IF c.token.exp <= n
    THEN [error |-> HTTPException401, detalle |-> "Token expirado",
          usuario |-> NoUsuario]
    ELSE IF c.token.sub \notin DOMAIN usuarios
    THEN [error |-> HTTPException401, detalle |-> "", usuario |-> NoUsuario]
    ELSE [error |-> NoError, detalle |-> "",
          usuario |-> usuarios[c.token.sub].usuario]

\* GET /dashboard: the response. An HTTPException becomes its status, any
\* other exception the status 500 of the framework. The task list of the
\* context is left out.
dashboard(usuarios, c, n) ==
    LET u == obtener_usuario_actual(usuarios, c, n)
    IN  IF u.error = HTTPException401 THEN ErrorHttp(401, u.detalle)
        ELSE IF u.error # NoError THEN ErrorHttp(500, u.error)
        ELSE Plantilla("dashboard.html", "", u.usuario.nombre)

\* GET /logout: the response
logout == Redireccion("/", SinCookie, TRUE)

\* a request to the application: the response is recorded, the browser keeps
\* the cookie the response sets and drops the one it deletes
Peticion(op, datos, respuesta) ==
    /\ ultima' = [Llamada(op, 0, NoError, NoUsuario, None, 0)
                     EXCEPT !.resultado = respuesta, !.datos = datos]
    /\ cookie' = IF respuesta.borra_cookie THEN SinCookie
                 ELSE IF respuesta.set_cookie.hay THEN respuesta.set_cookie
                 ELSE cookie
    /\ UNCHANGED gestor_usuarios
    /\ UNCHANGED <<estado_tareas, estado_archivo>>

Login(username, password) ==
    Peticion("login", [username |-> username, password |-> password],
             login(gestor_usuarios, username, password, llamadas))

\* the request carries the cookie c: the browser's, or one made up
Dashboard(c) ==
    Peticion("dashboard", c, dashboard(gestor_usuarios, c, llamadas))

Logout == Peticion("logout", None, logout)

\* GET / and GET /login
Home == Peticion("home", None, Plantilla("index.html", "", ""))
LoginForm == Peticion("login_form", None, Plantilla("login.html", "", ""))

\* one more call is made
Llamar ==
    /\ llamadas < MaxLlamadas
    /\ llamadas' = llamadas + 1

\* one more call is made, on the Tarea objects: nothing else changes
LlamarTarea == Llamar /\ UNCHANGED estado_externo

Next ==
    \/ \E n \in Nombres, d \in Descripciones, a \in 0..Len(heap) :
          LlamarTarea /\ Crear(n, d, a)
    \/ \E i \in DOMAIN tareas, u \in Usuarios :
          LlamarTarea /\ AgregarUsuario(i, u)
    \/ \E i \in DOMAIN tareas, u \in Usuarios :
          LlamarTarea /\ QuitarUsuario(i, u)
    \/ \E i \in DOMAIN tareas, e \in EstadosEntrada :
          LlamarTarea /\ CambiarEstado(i, e)
    \/ \E i \in DOMAIN tareas, x \in Textos, u \in Usuarios :
          LlamarTarea /\ AgregarComentario(i, x, u)
    \/ \E i \in DOMAIN tareas :
          LlamarTarea /\ FromJson(to_json(tareas[i], lista_de(i)), i)
    \/ \E r \in RegistrosExternos : LlamarTarea /\ FromJson(r, 0)
    \/ LlamarTarea /\ CalcularEstadisticas

Spec == Init /\ [][Next]_vars

\* The caller of Tarea(nombre, descripcion, lista) still holds `lista` after
\* the call and may append to it: list l of the heap gets one more entry.
LlamadorModifica(l, usuario) ==
    /\ heap' = [heap EXCEPT ![l] = Append(@, usuario)]
    /\ ultima' = Llamada("lista_append", 0, NoError, usuario, None, l)
    /\ UNCHANGED <<tareas, nextObj>>

\* the list the caller holds from the start
ListaDelLlamador == 1

NextLlamador ==
    \/ Next
    \/ \E u \in Usuarios :
          LlamarTarea /\ LlamadorModifica(ListaDelLlamador, u)

\* the tasks together with a caller that changes the list it passed
SpecLlamador == Init /\ [][NextLlamador]_vars

NextPersistencia ==
    \/ \E d \in Datos, f \in {SinFallo, FalloOpen, FalloEscritura} :
          \E k \in EscritosAlFallar(d) : Llamar /\ GuardarDatos(d, f, k)
    \/ \E d \in Defaults, f \in {SinFallo, FalloOpen} :
          Llamar /\ CargarDatos(d, f)

\* the persistence functions of utils.py on one file
SpecPersistencia == Init /\ [][NextPersistencia]_vars

\* the application starts with the users its manager holds
InitApi ==
    /\ tareas = <<>>
    /\ \E l \in ListasIniciales : heap = <<l>>
    /\ nextObj = PrimerObj
    /\ llamadas = 0
    /\ ultima = Llamada("init", 0, NoError, NoUsuario, None, 0)
    /\ archivo = Ausente
    /\ guardado = NadaGuardado
    /\ gestor_usuarios \in Gestores
    /\ cookie = SinCookie

\* the cookies a request may carry that no login response set
CookiesPeticion ==
    {Cookie([sub |-> s, rol |-> "user", exp |-> x, firma |-> f]) :
         s \in NombresLogin, x \in {0, MaxLlamadas + HorasVigencia},
         f \in {SECRET_KEY, OtraClave}}

NextApi ==
    \/ \E u \in NombresLogin, p \in Claves : Llamar /\ Login(u, p)
    \/ \E c \in {cookie} \cup CookiesPeticion : Llamar /\ Dashboard(c)
    \/ Llamar /\ Logout
    \/ Llamar /\ Home
    \/ Llamar /\ LoginForm

\* the routes of src/api/app.py
SpecApi == InitApi /\ [][NextApi]_vars

\* ------------------------------------------------------------ claim helpers

\* the task a call ran on, and the list it holds, in the current state
tarea_ultima == tareas[ultima.tarea]
lista_ultima == lista_de(ultima.tarea)

\* the number of entries of lista that `in` finds equal to u
Cuenta(u, lista) == Cardinality({k \in DOMAIN lista : py_eq(lista[k], u)})

EsPrefijo(a, b) == Len(a) <= Len(b) /\ SubSeq(b, 1, Len(a)) = a

\* the attributes of a Usuario, its object identity left out
Atributos(u) ==
    [id |-> u.id, nombre |-> u.nombre, nombre_visible |-> u.nombre_visible,
     rol |-> u.rol, fecha_creacion |-> u.fecha_creacion]

\* the number of tasks built so far whose state is e
TareasEnEstado(e) == Cardinality({i \in DOMAIN tareas : tareas[i].estado = e})

\* ------------------------------------------------------------------ claims

\* C1: creating a task with a non-empty name succeeds and appends a task in
\* state pendiente with no comments and, when no list is passed, no assigned
\* users; creating one with the empty name raises ValueError and builds no task.
C1_Creacion ==
    [][ultima'.op = "crear" =>
          IF ultima'.valor # ""
          THEN /\ ultima'.error = NoError
               /\ tareas' = Append(tareas, tareas'[Len(tareas')])
               /\ tareas'[Len(tareas')].nombre = ultima'.valor
               /\ tareas'[Len(tareas')].estado = "pendiente"
               /\ tareas'[Len(tareas')].comentarios = <<>>
               /\ ultima'.arg = 0 =>
                      heap'[tareas'[Len(tareas')].usuarios_asignados] = <<>>
          ELSE /\ ultima'.error = ValueError
               /\ tareas' = tareas
               /\ heap' = heap]_vars

\* C1 witness: a creation with the empty name was refused after a task with
\* no list argument had been built.
C1_Testigo ==
    /\ ultima.op = "crear"
    /\ ultima.error = ValueError
    /\ \E i \in DOMAIN tareas : lista_de(i) = <<>> /\ tareas[i].estado = "pendiente"

\* C2: agregar_comentario by an author who is not in usuarios_asignados at
\* that moment raises ValueError and changes no field of any task.
C2_AutorNoAsignado ==
    [][(/\ ultima'.op = "agregar_comentario"
        /\ ~py_in(ultima'.usuario, lista_de(ultima'.tarea)))
       => /\ ultima'.error = ValueError
          /\ tareas' = tareas
          /\ heap' = heap]_vars

\* C2 witness: a comment was refused for a user who wrote an earlier comment
\* of the task, so was assigned once and is no longer.
C2_Testigo ==
    /\ ultima.op = "agregar_comentario"
    /\ ultima.error = ValueError
    /\ \E k \in DOMAIN tarea_ultima.comentarios :
          tarea_ultima.comentarios[k][2] = ultima.usuario

\* C3 as stated: after agregar_usuario(u) the user u appears exactly once in
\* usuarios_asignados.
C3_UnaVez ==
    ultima.op = "agregar_usuario" => Cuenta(ultima.usuario, lista_ultima) = 1

\* C4 as stated: after quitar_usuario(u) the user u is not in
\* usuarios_asignados.
C4_Quitado ==
    ultima.op = "quitar_usuario" => ~py_in(ultima.usuario, lista_ultima)

\* C5 as stated: the state of every task is pendiente or finalizada.
C5_EstadoValido ==
    \A i \in DOMAIN tareas : tareas[i].estado \in EstadosValidos

\* C6: cambiar_estado with a value other than pendiente and finalizada raises
\* ValueError and leaves state, assigned users and comments as they were.
C6_EstadoRechazado ==
    [][(/\ ultima'.op = "cambiar_estado"
        /\ ultima'.valor \notin EstadosValidos)
       => /\ ultima'.error = ValueError
          /\ tareas' = tareas
          /\ heap' = heap]_vars

\* C6 witness: a state was refused on a task that has users and comments.
C6_Testigo ==
    /\ ultima.op = "cambiar_estado"
    /\ ultima.error = ValueError
    /\ lista_ultima # <<>>
    /\ tarea_ultima.comentarios # <<>>

\* C7: cambiar_estado(pendiente) and cambiar_estado(finalizada) succeed on
\* every task, whatever its state, users and comments, and leave the state
\* equal to the value asked for.
C7_SinGuardas ==
    (ultima.op = "cambiar_estado" /\ ultima.valor \in EstadosValidos)
        => /\ ultima.error = NoError
           /\ tarea_ultima.estado = ultima.valor

\* C7 witness: a task with a comment went back to pendiente.
C7_Testigo ==
    /\ ultima.op = "cambiar_estado"
    /\ ultima.valor = "pendiente"
    /\ ultima.error = NoError
    /\ tarea_ultima.comentarios # <<>>

\* two tasks agree field by field; users are compared by their attributes
MismosCampos(i, j) ==
    /\ tareas[i].nombre = tareas[j].nombre
    /\ tareas[i].descripcion = tareas[j].descripcion
    /\ tareas[i].estado = tareas[j].estado
    /\ tareas[i].fecha_creacion = tareas[j].fecha_creacion
    /\ Len(lista_de(i)) = Len(lista_de(j))
    /\ \A k \in DOMAIN lista_de(i) :
          Atributos(lista_de(i)[k]) = Atributos(lista_de(j)[k])
    /\ Len(tareas[i].comentarios) = Len(tareas[j].comentarios)
    /\ \A k \in DOMAIN tareas[i].comentarios :
          /\ tareas[i].comentarios[k][1] = tareas[j].comentarios[k][1]
          /\ Atributos(tareas[i].comentarios[k][2]) =
                Atributos(tareas[j].comentarios[k][2])
          /\ tareas[i].comentarios[k][3] = tareas[j].comentarios[k][3]

\* C8: from_json(to_json(t)) has the name, description, state, creation time,
\* assigned users (in order) and comments (text, author, time, in order) of t.
C8_IdaYVuelta ==
    (ultima.op = "from_json" /\ ultima.arg # 0)
        => /\ ultima.error = NoError
           /\ MismosCampos(ultima.arg, ultima.tarea)

\* C8 witness: a task with two users and a comment was written and read back.
C8_Testigo ==
    /\ ultima.op = "from_json"
    /\ ultima.arg # 0
    /\ Len(lista_ultima) >= 2
    /\ tarea_ultima.comentarios # <<>>

\* a task holds a rebuilt copy of the live user u: another object, same username
TieneCopia(i, u) ==
    \E k \in DOMAIN lista_de(i) :
        /\ lista_de(i)[k].obj >= PrimerObj
        /\ lista_de(i)[k].nombre = u.nombre

C10_SoloAgrega ==
    [][/\ \A i \in DOMAIN tareas :
            /\ i \in DOMAIN tareas'
            /\ EsPrefijo(tareas[i].comentarios, tareas'[i].comentarios)
       /\ (ultima'.op = "agregar_comentario" /\ ultima'.error = NoError) =>
              tareas'[ultima'.tarea].comentarios =
                  Append(tareas[ultima'.tarea].comentarios,
                         <<ultima'.valor, ultima'.usuario, now(llamadas)>>)]_vars

\* C10 witness: the author of a comment was unassigned from a task that has
\* two comments.
C10_Testigo ==
    /\ ultima.op = "quitar_usuario"
    /\ Len(tarea_ultima.comentarios) >= 2
    /\ \E k \in DOMAIN tarea_ultima.comentarios :
          tarea_ultima.comentarios[k][2] = ultima.usuario
    /\ ~py_in(ultima.usuario, lista_ultima)

\* C11: every call of calcular_estadisticas_tareas returns the figures of the
\* tasks as they are at the call: total is their number, finalizadas the number
\* of those now in state finalizada, pendientes the difference.
C11_Estadisticas ==
    ultima.op = "estadisticas" =>
        /\ ultima.resultado.total = Len(tareas)
        /\ ultima.resultado.finalizadas = TareasEnEstado("finalizada")
        /\ ultima.resultado.pendientes =
              ultima.resultado.total - ultima.resultado.finalizadas

\* C11 witness: the figures were computed after a state change, with one task
\* finished and another one not.
C11_Testigo ==
    /\ ultima.op = "estadisticas"
    /\ ultima.resultado.finalizadas >= 1
    /\ ultima.resultado.pendientes >= 1
    /\ tareas[Len(tareas)].estado = "finalizada"

\* C12 as stated: the figures are not negative, finalizadas + pendientes is
\* total, and pendientes is the number of tasks whose state is pendiente.
C12_Pendientes ==
    ultima.op = "estadisticas" =>
        /\ ultima.resultado.total >= 0
        /\ ultima.resultado.finalizadas >= 0
        /\ ultima.resultado.pendientes >= 0
        /\ ultima.resultado.finalizadas + ultima.resultado.pendientes =
              ultima.resultado.total
        /\ ultima.resultado.pendientes = TareasEnEstado("pendiente")

\* no entry of the list occurs in it more than once
SinRepetidos(lista) == \A k \in DOMAIN lista : Cuenta(lista[k], lista) = 1

\* lista with its k-th entry left out
SinEntrada(lista, k) == SubSeq(lista, 1, k - 1) \o SubSeq(lista, k + 1, Len(lista))

\* C16 as stated: after every call no user occurs twice in the assigned users
\* of any task, agregar_usuario puts a new user last and quitar_usuario keeps
\* the order of the users that stay.
C16_Conjunto ==
    [][/\ \A i \in DOMAIN tareas' :
            SinRepetidos(heap'[tareas'[i].usuarios_asignados])
       /\ ultima'.op = "agregar_usuario" =>
              heap'[tareas[ultima'.tarea].usuarios_asignados] \in
                  {lista_de(ultima'.tarea),
                   Append(lista_de(ultima'.tarea), ultima'.usuario)}
       /\ ultima'.op = "quitar_usuario" =>
              heap'[tareas[ultima'.tarea].usuarios_asignados] \in
                  {lista_de(ultima'.tarea)} \cup
                  {SinEntrada(lista_de(ultima'.tarea), k) :
                       k \in DOMAIN lista_de(ultima'.tarea)}]_vars

\* C17: agregar_usuario and quitar_usuario change no attribute of a task but
\* the content of its user list, cambiar_estado changes estado alone and
\* agregar_comentario changes comentarios alone; no call ever changes the
\* fecha_creacion of a task that exists.
C17_Marco ==
    [][/\ ultima'.op \in {"agregar_usuario", "quitar_usuario"} =>
              tareas' = tareas
       /\ ultima'.op = "cambiar_estado" =>
              /\ heap' = heap
              /\ tareas' = [tareas EXCEPT ![ultima'.tarea].estado =
                                          tareas'[ultima'.tarea].estado]
       /\ ultima'.op = "agregar_comentario" =>
              /\ heap' = heap
              /\ tareas' = [tareas EXCEPT ![ultima'.tarea].comentarios =
                                          tareas'[ultima'.tarea].comentarios]
       /\ \A i \in DOMAIN tareas :
              /\ i \in DOMAIN tareas'
              /\ tareas'[i].nombre = tareas[i].nombre
              /\ tareas'[i].descripcion = tareas[i].descripcion
              /\ tareas'[i].fecha_creacion = tareas[i].fecha_creacion]_vars

\* C17 witness: a comment was added to a finished task that was built by a
\* later call than the first.
C17_Testigo ==
    /\ ultima.op = "agregar_comentario"
    /\ ultima.error = NoError
    /\ tarea_ultima.estado = "finalizada"
    /\ tarea_ultima.fecha_creacion # now(0)

\* C18 as stated: agregar_usuario and quitar_usuario on one task leave the
\* assigned users of every other task as they are, and so does a change the
\* caller makes to the list it passed to the constructor.
C18_Aislamiento ==
    [][/\ ultima'.op \in {"agregar_usuario", "quitar_usuario"} =>
              \A j \in DOMAIN tareas \ {ultima'.tarea} :
                  heap'[tareas[j].usuarios_asignados] = lista_de(j)
       /\ ultima'.op = "lista_append" =>
              \A j \in DOMAIN tareas :
                  heap'[tareas[j].usuarios_asignados] = lista_de(j)]_vars

\* C14: a load from a path with no file returns the default (the empty list
\* when none is given) and raises nothing; every other failure of a load (the
\* file cannot be opened, its bytes are no pickle) and every failure of a save
\* (the file cannot be opened, the write fails, an object cannot be pickled)
\* reaches the caller as RuntimeError.
C14_Persistencia ==
    /\ ultima.op = "cargar_datos" =>
           /\ (ultima.valor = SinFallo /\ ~archivo.existe) =>
                  /\ ultima.error = NoError
                  /\ ultima.resultado = default_efectivo(ultima.datos)
           /\ (ultima.valor # SinFallo
                  \/ (archivo.existe /\ ~pickle_valido(archivo.bytes))) =>
                  ultima.error = RuntimeError
    /\ (/\ ultima.op = "guardar_datos"
        /\ (ultima.valor # SinFallo \/ ~serializable(ultima.datos))) =>
           ultima.error = RuntimeError

\* C14 witness: a load, with no fault of the environment, of the file a failed
\* save left behind raised RuntimeError.
C14_Testigo ==
    /\ ultima.op = "cargar_datos"
    /\ ultima.valor = SinFallo
    /\ archivo.existe
    /\ ultima.error = RuntimeError

\* C15 as stated: a load that meets no fault of its own returns the collection
\* of the last successful save, whatever saves failed after it, and the
\* default when no save has succeeded.
C15_TodoONada ==
    (ultima.op = "cargar_datos" /\ ultima.valor = SinFallo) =>
        /\ ultima.error = NoError
        /\ ultima.resultado = IF guardado.hay THEN guardado.datos
                              ELSE default_efectivo(ultima.datos)

\* C13: a login attempt that fails authentication, for a username the manager
\* does not hold or for a wrong password, gets the login page with the error
\* "Credenciales invalidas" and no cookie; and every other failing attempt,
\* against any manager, fails with the same exception and gets the same
\* response, so the response does not tell whether the user exists.
C13_Indiferenciado ==
    (/\ ultima.op = "login"
     /\ autenticar_usuario(gestor_usuarios, ultima.datos.username,
                           ultima.datos.password).error # NoError) =>
        /\ ultima.resultado.cuerpo = "login.html"
        /\ ultima.resultado.error = "Credenciales invalidas"
        /\ ~ultima.resultado.set_cookie.hay
        /\ cookie = SinCookie
        /\ \A g \in Gestores, u \in NombresLogin, p \in Claves :
               autenticar_usuario(g, u, p).error # NoError =>
                   /\ autenticar_usuario(g, u, p) =
                          autenticar_usuario(gestor_usuarios,
                                             ultima.datos.username,
                                             ultima.datos.password)
                   /\ login(g, u, p, llamadas) = ultima.resultado

\* C13 witness: the last request was a login for a username the manager does
\* not hold, while it holds another user, whose password can be got wrong.
C13_Testigo ==
    /\ ultima.op = "login"
    /\ ultima.datos.username \notin DOMAIN gestor_usuarios
    /\ DOMAIN gestor_usuarios # {}

\* C19 as stated: a login whose authentication succeeds is answered with a
\* redirect to /dashboard that sets the access_token cookie, and the
\* "Credenciales invalidas" page is returned only when authentication failed;
\* the dashboard page is served only to a request whose cookie names a user
\* the manager holds.
C19_Protocolo ==
    /\ ultima.op = "login" =>
           LET a == autenticar_usuario(gestor_usuarios, ultima.datos.username,
                                       ultima.datos.password)
           IN  /\ a.error = NoError =>
                      /\ ultima.resultado.status = 302
                      /\ ultima.resultado.location = "/dashboard"
                      /\ ultima.resultado.set_cookie.hay
                      /\ ultima.resultado.set_cookie.token.sub =
                             ultima.datos.username
                      /\ cookie = ultima.resultado.set_cookie
               /\ ultima.resultado.error = "Credenciales invalidas" =>
                      a.error # NoError
    /\ (ultima.op = "dashboard" /\ ultima.resultado.cuerpo = "dashboard.html") =>
           /\ ultima.datos.hay
           /\ ultima.datos.token.sub \in DOMAIN gestor_usuarios
====
